---- MODULE Spec2Model ----
(***************************************************************************)
(* Model of omnivore_rss_export.py: one run of main().                     *)
(*                                                                         *)
(* main() reads three environment variables, parses one flag, calls        *)
(* OmnivoreClient.get_subscriptions (one requests.post), optionally        *)
(* filters the list, prints it, and calls OmnivoreClient.export_to_opml.   *)
(*                                                                         *)
(* Python values are tagged records: None, Str(s), Datetime(local, off).   *)
(* A key that a JSON object does not hold is Absent.  A timestamp string   *)
(* is IsoStr(local, zone): the wall-clock seconds it spells and its zone   *)
(* suffix.  Of a Subscription the model keeps name, url, folder and the    *)
(* four timestamps; description, newsletter_email, count, icon and the     *)
(* three flags are copied by get_subscriptions and only printed.           *)
(***************************************************************************)
EXTENDS Integers, Sequences, FiniteSets, TLC

VARIABLES
    pc,                 \* position of main(): start, config_ok, args_parsed,
                        \* fetched, filtered, reported, done, aborted
    env,                \* os.environ, the three variables main reads
    exclude_unfetched,  \* args.exclude_unfetched
    posts,              \* number of requests.post calls issued
    response,           \* what requests.post produced
    subscriptions,      \* main's local list of Subscription
    filtered_count,     \* main's filtered_count
    stdout,             \* lines printed
    folders,            \* export_to_opml's local dict, in insertion order
    file,               \* the output file omnivore_rss_export_<date>.opml
    raised              \* the exception that left main(), or NoException

vars == <<pc, env, exclude_unfetched, posts, response, subscriptions,
          filtered_count, stdout, folders, file, raised>>

----------------------------------------------------------------------------
(* Bounds of the model.                                                    *)

MaxSubs == 2
MaxFilterSubs == 2
MaxFetchSubs == 2
MaxOpmlSubs == 4

----------------------------------------------------------------------------
(* Python and JSON values.                                                 *)

None == [tag |-> "None"]
Absent == [tag |-> "absent"]
Str(s) == [tag |-> "str", s |-> s]
IsoStr(local, zone) == [tag |-> "str", s |-> "iso8601", local |-> local, zone |-> zone]
Datetime(local, off) == [tag |-> "datetime", local |-> local, utcoffset |-> off]

\* bool(v) for the values the model holds: None and "" are falsy.
Truthy(v) == v # None /\ v # Str("")

\* dict.get(key): None when the key is missing.
Get(item, key) == IF item[key] = Absent THEN None ELSE item[key]

SeqsUpTo(S, n) == UNION {[1..k -> S] : k \in 0..n}

RECURSIVE Concat(_)
Concat(ss) == IF ss = <<>> THEN <<>> ELSE Head(ss) \o Concat(Tail(ss))

----------------------------------------------------------------------------
(* Exceptions and printed lines.                                           *)

NoException == [type |-> "none", msg |-> "", names |-> <<>>]
Exc(type, msg) == [type |-> type, msg |-> msg, names |-> <<>>]

\* print(f"Error: {str(e)}")
ErrorLine(e) == [tag |-> "Error", msg |-> e.msg, names |-> e.names]
Line(tag) == [tag |-> tag]

----------------------------------------------------------------------------
(* main, lines 172-187: the configuration check.                           *)

EnvNames == <<"OMNIVORE_API_TOKEN", "OMNIVORE_HOST", "OMNIVORE_GRAPH_QL_PATH">>

\* os.getenv gives None for an unset variable.
EnvValues == {None, Str(""), Str(" "), Str("set")}

\* "if not token: missing_vars.append(...)", in the order of the three ifs.
missing_vars(e) == SelectSeq(EnvNames, LAMBDA n : ~Truthy(e[n]))

ConfigError(e) ==
    [type |-> "ValueError", msg |-> "Missing required environment variables",
     names |-> missing_vars(e)]

NoResponse == [tag |-> "none"]
NoFile == [tag |-> "nofile"]
OldFile == [tag |-> "old"]

Init ==
    /\ pc = "start"
    /\ env \in [{EnvNames[i] : i \in 1..3} -> EnvValues]
    /\ exclude_unfetched = FALSE
    /\ posts = 0
    /\ response = NoResponse
    /\ subscriptions = <<>>
    /\ filtered_count = 0
    /\ stdout = <<>>
    /\ folders = <<>>
    /\ file \in {NoFile, OldFile}
    /\ raised = NoException

ValidateConfig ==
    /\ pc = "start"
    /\ IF missing_vars(env) # <<>>
         THEN /\ raised' = ConfigError(env)
              /\ pc' = "aborted"
         ELSE /\ raised' = raised
              /\ pc' = "config_ok"
    /\ UNCHANGED <<env, exclude_unfetched, posts, response, subscriptions,
                   filtered_count, stdout, folders, file>>

\* main, lines 189-193: argparse, one store_true flag.
ParseArgs ==
    /\ pc = "config_ok"
    /\ exclude_unfetched' \in BOOLEAN
    /\ pc' = "args_parsed"
    /\ UNCHANGED <<env, posts, response, subscriptions, filtered_count,
                   stdout, folders, file, raised>>

----------------------------------------------------------------------------
(* OmnivoreClient.get_subscriptions, lines 68-125.                         *)

\* str.replace("Z", "+00:00") on a timestamp string.
ReplaceZ(s) ==
    IF s.s = "iso8601" /\ s.zone = "Z" THEN IsoStr(s.local, "+00:00") ELSE s

\* Seconds east of UTC that an explicit offset suffix spells.
UtcOffset(zone) == IF zone = "+01:00" THEN 3600 ELSE 0

InvalidIso == [tag |-> "ValueError"]

\* datetime.fromisoformat: an aware datetime keeping the wall-clock fields
\* and the offset of the string; ValueError for any other string.
fromisoformat(s) ==
    IF s.s = "iso8601" /\ s.zone \in {"+00:00", "+01:00"}
      THEN Datetime(s.local, UtcOffset(s.zone))
      ELSE InvalidIso

\* Variant of ParseTimestamp that copies the field as received, the way url
\* and folder are copied.
ParseTimestampRaw(sub, k) == Get(sub, k)

\* datetime.fromisoformat(sub[k].replace("Z", "+00:00")) if sub.get(k) else None
ParseTimestamp(sub, k) ==
    IF Truthy(Get(sub, k)) THEN fromisoformat(ReplaceZ(sub[k])) ELSE None

\* Lines 96-116: one Subscription from one item of the response.
Subscription(sub) ==
    [name            |-> sub.name,
     url             |-> Get(sub, "url"),
     folder          |-> Get(sub, "folder"),
     created_at      |-> ParseTimestamp(sub, "createdAt"),
     last_fetched_at |-> ParseTimestamp(sub, "lastFetchedAt"),
     refreshed_at    |-> ParseTimestamp(sub, "refreshedAt"),
     failed_at       |-> ParseTimestamp(sub, "failedAt")]

TimestampKeys == {"createdAt", "lastFetchedAt", "refreshedAt", "failedAt"}

\* An item on which a fromisoformat call of lines 96-99 raises.
ItemRaises(sub) == \E k \in TimestampKeys : ParseTimestamp(sub, k) = InvalidIso

\* Lines 94-117: the loop appends one Subscription per item, in order.
ParseItems(items) == [i \in 1..Len(items) |-> Subscription(items[i])]

\* requests.post either raises before any response (a network fault) or gives
\* a response with a status and a JSON object as its body.
NetworkFault == [tag |-> "fault"]
Response(status, errors, data, errorCodes, items) ==
    [tag |-> "response", status |-> status,
     body |-> [errors |-> errors, data |-> data, errorCodes |-> errorCodes,
               subscriptions |-> items]]

\* Response.raise_for_status raises HTTPError for 4xx and 5xx.
HttpError(status) == 400 <= status /\ status < 600

Returned(value, printed) ==
    [returned |-> TRUE, value |-> value, exc |-> NoException, printed |-> printed]
Raised(e, printed) ==
    [returned |-> FALSE, value |-> <<>>, exc |-> e, printed |-> printed]

\* Lines 76-79: the debug lines printed for a response.
DebugLines(r) ==
    <<[tag |-> "Status Code", status |-> r.status]>>
    \o (IF r.status # 200
          THEN <<Line("Response Headers"), Line("Response Text")>>
          ELSE <<>>)

\* The outcome of get_subscriptions when requests.post produced r: the list
\* returned or the exception raised, with the lines printed on the way.
get_subscriptions(r) ==
    IF r = NetworkFault
      THEN Raised(Exc("ConnectionError", "connection failed"),
                  <<Line("Request failed")>>)
    ELSE IF HttpError(r.status)
      THEN Raised(Exc("HTTPError", "bad status"),
                  DebugLines(r) \o <<Line("Request failed"), Line("Error response")>>)
    ELSE IF r.body.errors
      THEN Raised(Exc("Exception", "GraphQL errors"), DebugLines(r))
    ELSE IF ~r.body.data
      THEN Raised(Exc("KeyError", "data"), DebugLines(r))
    ELSE IF r.body.errorCodes
      THEN Raised(Exc("Exception", "Subscription error"), DebugLines(r))
    ELSE IF \E i \in 1..Len(r.body.subscriptions) : ItemRaises(r.body.subscriptions[i])
      THEN Raised(Exc("ValueError", "Invalid isoformat string"), DebugLines(r))
    ELSE Returned(ParseItems(r.body.subscriptions), DebugLines(r))

\* main, lines 195-198 with the handler of lines 248-250: the client is
\* built, the request is issued once, and a failure is printed and re-raised.
Fetch(outcomes) ==
    /\ pc = "args_parsed"
    /\ \E r \in outcomes :
         LET res == get_subscriptions(r) IN
           /\ response' = r
           /\ posts' = posts + 1
           /\ subscriptions' = IF res.returned THEN res.value ELSE subscriptions
           /\ raised' = res.exc
           /\ stdout' = stdout \o <<Line("Fetching subscriptions...")>> \o res.printed
                          \o (IF res.returned THEN <<>> ELSE <<ErrorLine(res.exc)>>)
           /\ pc' = IF res.returned THEN "fetched" ELSE "aborted"
    /\ UNCHANGED <<env, exclude_unfetched, filtered_count, folders, file>>

\* The responses of the full run: every status class, every combination of
\* the error fields, and every list of up to MaxSubs items.
Item(url, folder, createdAt, lastFetchedAt, refreshedAt, failedAt) ==
    [name |-> Str("feed"), url |-> url, folder |-> folder,
     createdAt |-> createdAt, lastFetchedAt |-> lastFetchedAt,
     refreshedAt |-> refreshedAt, failedAt |-> failedAt]

MainItems ==
    {Item(u, f, IsoStr(0, "Z"), l, Absent, Absent) :
        u \in {Absent, Str("http://u")}, f \in {None, Str("A")},
        l \in {Absent, IsoStr(3600, "Z")}}

HttpStatuses == {200, 201, 304, 404, 500}

SampleItem == Item(Str("http://u"), Str("A"), IsoStr(0, "Z"), IsoStr(3600, "Z"), Absent, Absent)

MainResponses ==
    {NetworkFault}
    \cup {Response(s, FALSE, TRUE, FALSE, items) :
            s \in HttpStatuses, items \in SeqsUpTo(MainItems, MaxSubs)}
    \cup {Response(s, e, d, c, items) :
            s \in HttpStatuses, e \in BOOLEAN, d \in BOOLEAN, c \in BOOLEAN,
            items \in {<<>>, <<SampleItem>>}}

----------------------------------------------------------------------------
(* main, lines 200-210: the --exclude-unfetched filter.                    *)

UnfetchedWindow == 60

Abs(n) == IF n < 0 THEN -n ELSE n

\* (a - b).total_seconds() of two aware datetimes: the distance of the instants.
TotalSeconds(a, b) == (a.local - a.utcoffset) - (b.local - b.utcoffset)

\* Variant of NeverFetched whose window includes its end (<= for <).
NeverFetchedInclusive(sub) ==
    \/ sub.last_fetched_at = None
    \/ /\ Truthy(sub.created_at)
       /\ Truthy(sub.last_fetched_at)
       /\ Abs(TotalSeconds(sub.last_fetched_at, sub.created_at)) <= UnfetchedWindow

\* The condition of lines 204-206 under which the comprehension drops sub.
NeverFetched(sub) ==
    \/ sub.last_fetched_at = None
    \/ /\ Truthy(sub.created_at)
       /\ Truthy(sub.last_fetched_at)
       /\ Abs(TotalSeconds(sub.last_fetched_at, sub.created_at)) < UnfetchedWindow

RECURSIVE RemoveFrom(_, _)
RemoveFrom(subs, i) ==
    IF i > Len(subs) THEN subs
    ELSE IF NeverFetched(subs[i])
      THEN RemoveFrom(SubSeq(subs, 1, i - 1) \o SubSeq(subs, i + 1, Len(subs)), i + 1)
      ELSE RemoveFrom(subs, i + 1)

\* Variant of FilterUnfetched that removes from the list while iterating over
\* it, so that the element after each removed one is skipped.
FilterWhileIterating(subs) == RemoveFrom(subs, 1)

\* Lines 203-207: a new list of the subscriptions kept, in their order.
FilterUnfetched(subs) == SelectSeq(subs, LAMBDA sub : ~NeverFetched(sub))

FilterStep ==
    /\ pc = "fetched"
    /\ IF exclude_unfetched
         THEN LET original_count == Len(subscriptions)
                  kept == FilterUnfetched(subscriptions)
              IN  /\ subscriptions' = kept
                  /\ filtered_count' = original_count - Len(kept)
                  /\ stdout' = IF original_count - Len(kept) > 0
                                 THEN Append(stdout, [tag |-> "Filtered out",
                                                      count |-> original_count - Len(kept)])
                                 ELSE stdout
         ELSE UNCHANGED <<subscriptions, filtered_count, stdout>>
    /\ pc' = "filtered"
    /\ UNCHANGED <<env, exclude_unfetched, posts, response, folders, file, raised>>

----------------------------------------------------------------------------
(* main, lines 212-241: the report.                                        *)

\* strftime('%Y-%m-%d') of a datetime: the day of its wall-clock fields.
DateOf(dt) == dt.local \div 86400

\* Lines 215-241 for one subscription: a line per populated field.
ReportLines(sub) ==
    <<[tag |-> "Name", value |-> sub.name]>>
    \o (IF Truthy(sub.url) THEN <<[tag |-> "URL", value |-> sub.url]>> ELSE <<>>)
    \o (IF Truthy(sub.folder) THEN <<[tag |-> "Folder", value |-> sub.folder]>> ELSE <<>>)
    \o (IF Truthy(sub.created_at)
          THEN <<[tag |-> "Created at", date |-> DateOf(sub.created_at)]>> ELSE <<>>)
    \o (IF Truthy(sub.last_fetched_at)
          THEN <<[tag |-> "Last fetched at", date |-> DateOf(sub.last_fetched_at)]>> ELSE <<>>)
    \o (IF Truthy(sub.refreshed_at)
          THEN <<[tag |-> "Refreshed at", date |-> DateOf(sub.refreshed_at)]>> ELSE <<>>)
    \o (IF Truthy(sub.failed_at)
          THEN <<[tag |-> "Failed at", date |-> DateOf(sub.failed_at)]>> ELSE <<>>)

Report ==
    /\ pc = "filtered"
    /\ stdout' = stdout \o <<[tag |-> "Found", count |-> Len(subscriptions)]>>
                   \o Concat([i \in 1..Len(subscriptions) |-> ReportLines(subscriptions[i])])
    /\ pc' = "reported"
    /\ UNCHANGED <<env, exclude_unfetched, posts, response, subscriptions,
                   filtered_count, folders, file, raised>>

----------------------------------------------------------------------------
(* OmnivoreClient.export_to_opml, lines 127-166.                           *)

\* sub.folder or "Uncategorized"
FolderOf(sub) == IF Truthy(sub.folder) THEN sub.folder.s ELSE "Uncategorized"

\* Variant of AddToFolders that puts a new folder first.
AddToFoldersFront(fs, sub) ==
    IF \E i \in 1..Len(fs) : fs[i].folder = FolderOf(sub)
      THEN [i \in 1..Len(fs) |->
              IF fs[i].folder = FolderOf(sub)
                THEN [fs[i] EXCEPT !.subs = Append(@, sub)]
                ELSE fs[i]]
      ELSE <<[folder |-> FolderOf(sub), subs |-> <<sub>>]>> \o fs

\* Lines 144-147: one pass of the grouping loop on the dict built so far.
AddToFolders(fs, sub) ==
    IF \E i \in 1..Len(fs) : fs[i].folder = FolderOf(sub)
      THEN [i \in 1..Len(fs) |->
              IF fs[i].folder = FolderOf(sub)
                THEN [fs[i] EXCEPT !.subs = Append(@, sub)]
                ELSE fs[i]]
      ELSE Append(fs, [folder |-> FolderOf(sub), subs |-> <<sub>>])

RECURSIVE GroupInto(_, _)
GroupInto(fs, subs) ==
    IF subs = <<>> THEN fs ELSE GroupInto(AddToFolders(fs, Head(subs)), Tail(subs))

\* Lines 142-147: the dict of folder -> subscriptions, in insertion order.
GroupByFolder(subs) == GroupInto(<<>>, subs)

FolderOpen(folder) == [el |-> "outline", text |-> folder, title |-> folder]
FolderClose == [el |-> "/outline"]
FeedOutline(sub) ==
    [el |-> "rss", text |-> sub.name, title |-> sub.name, xmlUrl |-> sub.url]

\* Variant of FeedOutlines without the test of line 156.
FeedOutlinesAll(subs) == [i \in 1..Len(subs) |-> FeedOutline(subs[i])]

\* Lines 155-157: a leaf for each subscription of the folder that has a url.
FeedOutlines(subs) ==
    LET withUrl == SelectSeq(subs, LAMBDA sub : Truthy(sub.url))
    IN  [i \in 1..Len(withUrl) |-> FeedOutline(withUrl[i])]

\* Variant of Wrapped that wraps every folder.
WrappedAlways(folder) == TRUE

\* Whether lines 151-153 and 159-160 wrap the folder's leaves.
Wrapped(folder) == folder # "Uncategorized"

\* Lines 151-160 for one folder.
RenderFolder(b) ==
    (IF Wrapped(b.folder) THEN <<FolderOpen(b.folder)>> ELSE <<>>)
    \o FeedOutlines(b.subs)
    \o (IF Wrapped(b.folder) THEN <<FolderClose>> ELSE <<>>)

Prologue ==
    <<[el |-> "?xml"], [el |-> "opml"], [el |-> "head"], [el |-> "title"],
      [el |-> "/head"], [el |-> "body"]>>
Epilogue == <<[el |-> "/body"], [el |-> "/opml"]>>

\* Lines 135-163: the document, line by line.
Document(fs) ==
    Prologue \o Concat([i \in 1..Len(fs) |-> RenderFolder(fs[i])]) \o Epilogue

\* Variant of ExportEnabled in which the export also runs after a failure, as
\* it would in a finally clause.
ExportAfterAnyOutcome == pc \in {"reported", "aborted"}

\* The point of main's try block at which line 245 runs.
ExportEnabled == pc = "reported"

\* What the file holds when open(filename, 'w') of line 165 has truncated or
\* created it and the write of line 166, or the flush as the with block
\* closes it, then fails: a proper prefix, of any length, of the document.
PartialFile(doc) == [tag |-> "partial", of |-> doc]

\* main, lines 243-246 with the handler of lines 248-250: the document is
\* built, then the file is opened for writing and written.  open() may fail,
\* leaving the file as it was; the write may fail after open() has emptied
\* the file, leaving part of the document; either failure is printed and
\* re-raised.
Export ==
    /\ ExportEnabled
    /\ folders' = GroupByFolder(subscriptions)
    /\ \/ /\ file' = [tag |-> "written", lines |-> Document(folders')]
          /\ stdout' = Append(stdout, Line("Exported subscriptions"))
          /\ raised' = raised
          /\ pc' = "done"
       \/ /\ file' = file
          /\ stdout' = Append(stdout, ErrorLine(Exc("OSError", "cannot open file")))
          /\ raised' = Exc("OSError", "cannot open file")
          /\ pc' = "aborted"
       \/ /\ file' = PartialFile(Document(folders'))
          /\ stdout' = Append(stdout, ErrorLine(Exc("OSError", "cannot write file")))
          /\ raised' = Exc("OSError", "cannot write file")
          /\ pc' = "aborted"
    /\ UNCHANGED <<env, exclude_unfetched, posts, response, subscriptions,
                   filtered_count>>

----------------------------------------------------------------------------
(* Specifications.                                                         *)

\* One whole run of main().
Next ==
    \/ ValidateConfig
    \/ ParseArgs
    \/ Fetch(MainResponses)
    \/ FilterStep
    \/ Report
    \/ Export

Spec == Init /\ [][Next]_vars

\* A run past the configuration check and argparse, with the flag in flags.
InitArgsParsed(flags) ==
    /\ pc = "args_parsed"
    /\ env = [n \in {EnvNames[i] : i \in 1..3} |-> Str("set")]
    /\ exclude_unfetched \in flags
    /\ posts = 0
    /\ response = NoResponse
    /\ subscriptions = <<>>
    /\ filtered_count = 0
    /\ stdout = <<>>
    /\ folders = <<>>
    /\ file = NoFile
    /\ raised = NoException

\* get_subscriptions on successful responses whose items vary in their
\* four timestamp fields.
FetchItems ==
    {Item(Str("http://u"), Absent, c, l, r, f) :
        c \in {Absent, None, IsoStr(7, "Z")},
        l \in {Absent, IsoStr(3607, "+01:00")},
        r \in {None, IsoStr(86400, "Z")},
        f \in {Absent, IsoStr(90000, "+01:00")}}
    \cup {Item(Str("http://u"), Absent, Str(""), Str(""), Str(""), Str("")),
          Item(Str("http://u"), Absent, Str("yesterday"), Absent, None, Absent),
          Item(Str("http://u"), Absent, Absent, Absent, None, Str("never"))}

FetchResponses ==
    {Response(s, FALSE, TRUE, FALSE, items) :
        s \in {200, 201}, items \in SeqsUpTo(FetchItems, MaxFetchSubs)}

InitFetch == InitArgsParsed({FALSE})
NextFetch == Fetch(FetchResponses)
SpecFetch == InitFetch /\ [][NextFetch]_vars

\* The filter on lists whose creation and last-fetch times lie on both
\* sides of the 60 second window, in either order and across offsets.
FilterItems ==
    {Item(Str("http://u"), Absent, c, l, Absent, Absent) :
        c \in {Absent, IsoStr(100, "Z"), IsoStr(3700, "+01:00")},
        l \in {Absent, None, IsoStr(40, "Z"), IsoStr(41, "Z"), IsoStr(100, "Z"),
               IsoStr(159, "Z"), IsoStr(160, "Z"),
               IsoStr(3759, "+01:00"), IsoStr(3760, "+01:00")}}

FilterResponses ==
    {Response(200, FALSE, TRUE, FALSE, items) :
        items \in SeqsUpTo(FilterItems, MaxFilterSubs)}

InitFilter == InitArgsParsed(BOOLEAN)
NextFilter == Fetch(FilterResponses) \/ FilterStep
SpecFilter == InitFilter /\ [][NextFilter]_vars

\* export_to_opml on lists of up to MaxOpmlSubs subscriptions spread over
\* named folders and no folder, with and without a url.
OpmlItems ==
    {Item(u, f, Absent, Absent, Absent, Absent) :
        u \in {Absent, Str("http://u1"), Str("http://u2")},
        f \in {Absent, Str("A"), Str("B")}}
    \cup {Item(Str("http://u1"), Str(""), Absent, Absent, Absent, Absent),
          Item(Str(""), Str("A"), Absent, Absent, Absent, Absent)}

OpmlResponses ==
    {Response(200, FALSE, TRUE, FALSE, items) :
        items \in SeqsUpTo(OpmlItems, MaxOpmlSubs)}

InitOpml == InitArgsParsed({FALSE})
NextOpml == Fetch(OpmlResponses) \/ FilterStep \/ Report \/ Export
SpecOpml == InitOpml /\ [][NextOpml]_vars

----------------------------------------------------------------------------
(* Vocabulary of the properties, stated on the response received and on    *)
(* what was printed and written rather than through the operators above.   *)

Items == response.body.subscriptions

\* A JSON field that is present and not null.
Present(raw) == raw # Absent /\ raw # None

IsIso(raw) == raw.tag = "str" /\ raw.s = "iso8601"

\* Seconds since the epoch, in UTC, of the instant an ISO-8601 string names.
InstantOf(raw) == IF raw.zone = "+01:00" THEN raw.local - 3600 ELSE raw.local

\* The folder label of a subscription: absent or empty is "Uncategorized".
Label(sub) ==
    IF sub.folder = None \/ sub.folder = Str("") THEN "Uncategorized" ELSE sub.folder.s

HasUrl(sub) == sub.url # None /\ sub.url # Str("")

\* How many lines with this tag were printed.
Printed(tag) == Cardinality({i \in 1..Len(stdout) : stdout[i].tag = tag})

\* The lines of the written file between <body> and </body>.
Body == SubSeq(file.lines, Len(Prologue) + 1, Len(file.lines) - Len(Epilogue))

ErrorPrinted == \E i \in 1..Len(stdout) : stdout[i].tag = "Error" /\ stdout[i].msg = raised.msg

----------------------------------------------------------------------------
(* C1.  A required variable that is missing, empty or blank (whitespace    *)
(* only) makes the run fail with one configuration error that names        *)
(* exactly those variables, and no request is issued.                      *)

MissingOrBlank(e) ==
    SelectSeq(EnvNames, LAMBDA n : e[n] = None \/ e[n] = Str("") \/ e[n] = Str(" "))

\* C1: once the check has run, any missing, empty or blank variable means the
\* run has aborted with the configuration error naming exactly those
\* variables, and no request was issued.
C1_BlankIsConfigurationError ==
    (pc # "start" /\ MissingOrBlank(env) # <<>>) =>
        /\ pc = "aborted"
        /\ raised.type = "ValueError"
        /\ raised.msg = "Missing required environment variables"
        /\ raised.names = MissingOrBlank(env)
        /\ posts = 0

----------------------------------------------------------------------------
(* C2.  The output file is written only in a run whose fetch returned a    *)
(* list; a run that ends with a configuration, transport, GraphQL or       *)
(* domain error leaves the file as it was, neither created nor             *)
(* overwritten.                                                            *)

\* The file is as it was before the run.
Untouched == file \in {NoFile, OldFile}

\* The exceptions that get_subscriptions or the configuration check raise.
FetchOrConfigError ==
    \/ raised.msg = "Missing required environment variables"
    \/ raised.type \in {"HTTPError", "ConnectionError", "KeyError"}
    \/ raised.msg \in {"GraphQL errors", "Subscription error", "Invalid isoformat string"}

\* C2: the file is touched only once get_subscriptions has returned a list
\* (one request issued, a response received, no exception of the fetch), and
\* at no point before the export; a run ended by a configuration, transport,
\* GraphQL or domain error has left the file untouched.
C2_FileWrittenOnlyAfterFetch ==
    /\ ~Untouched =>
          /\ pc \in {"done", "aborted"}
          /\ posts = 1
          /\ response.tag = "response"
          /\ ~FetchOrConfigError
          /\ raised.type \in {"none", "OSError"}
          /\ Printed("Found") = 1
    /\ FetchOrConfigError => Untouched
    /\ pc \in {"start", "config_ok", "args_parsed", "fetched", "filtered", "reported"}
          => Untouched
    /\ file.tag = "written" => pc = "done" /\ raised = NoException

C2_Witness ==
    /\ pc = "aborted"
    /\ raised.msg = "Subscription error"
    /\ Items # <<>>
    /\ file = OldFile

----------------------------------------------------------------------------
(* C3.  A received response is classified in the order: non-2xx status     *)
(* (transport error), top-level errors (GraphQL error), errorCodes in      *)
(* data.subscriptions (domain error); the first that holds decides, and a  *)
(* list is returned only when none holds.                                  *)

Non2xx(status) == status < 200 \/ status >= 300

\* C3: a non-2xx status gives the transport error; else top-level errors give
\* the GraphQL error; else errorCodes give the domain error; no list is
\* returned in any of the three cases.
C3_ClassificationOrder ==
    response.tag = "response" =>
        IF Non2xx(response.status)
          THEN pc = "aborted" /\ raised.type = "HTTPError"
        ELSE IF response.body.errors
          THEN pc = "aborted" /\ raised.msg = "GraphQL errors"
        ELSE IF response.body.data /\ response.body.errorCodes
          THEN pc = "aborted" /\ raised.msg = "Subscription error"
        ELSE TRUE

----------------------------------------------------------------------------
(* C4.  With --exclude-unfetched a subscription is dropped exactly when    *)
(* its last fetch time is absent, or both times are present and less than  *)
(* 60 seconds apart; without the flag nothing is dropped.                  *)

Gap(item) == Abs(InstantOf(item.lastFetchedAt) - InstantOf(item.createdAt))

Dropped(item) ==
    \/ ~Present(item.lastFetchedAt)
    \/ Present(item.createdAt) /\ Present(item.lastFetchedAt) /\ Gap(item) < 60

Survivors == SelectSeq(Items, LAMBDA item : ~Dropped(item))

\* C4: after the filter, with the flag the list is exactly the items that are
\* not Dropped, in order, and filtered_count is the number dropped; without
\* the flag the list is unchanged.
C4_DroppedIffNeverFetched ==
    pc = "filtered" =>
        IF exclude_unfetched
          THEN /\ Len(subscriptions) = Len(Survivors)
               /\ \A i \in 1..Len(Survivors) :
                    /\ subscriptions[i].last_fetched_at.tag = "datetime"
                    /\ subscriptions[i].last_fetched_at.local = Survivors[i].lastFetchedAt.local
                    /\ (subscriptions[i].created_at = None) = ~Present(Survivors[i].createdAt)
                    /\ Present(Survivors[i].createdAt) =>
                         subscriptions[i].created_at.local = Survivors[i].createdAt.local
               /\ filtered_count = Len(Items) - Len(Survivors)
          ELSE /\ Len(subscriptions) = Len(Items)
               /\ filtered_count = 0

\* One feed fetched exactly 60 seconds after creation is kept, one fetched at
\* the instant of creation is dropped.
C4_Witness ==
    /\ pc = "filtered"
    /\ exclude_unfetched
    /\ Len(Items) = 2
    /\ Present(Items[1].createdAt) /\ Present(Items[1].lastFetchedAt) /\ Gap(Items[1]) = 60
    /\ Present(Items[2].createdAt) /\ Present(Items[2].lastFetchedAt) /\ Gap(Items[2]) = 0
    /\ Len(subscriptions) = 1
    /\ filtered_count = 1

----------------------------------------------------------------------------
(* C5.  The folders are in the order in which their labels first appear    *)
(* in the input, each holds the subscriptions of its label in their input  *)
(* order, and every subscription is in exactly one folder.                 *)

FirstSeen(label) ==
    CHOOSE i \in 1..Len(subscriptions) :
        /\ Label(subscriptions[i]) = label
        /\ \A j \in 1..(i - 1) : Label(subscriptions[j]) # label

RECURSIVE SumLen(_)
SumLen(fs) == IF fs = <<>> THEN 0 ELSE Len(Head(fs).subs) + SumLen(Tail(fs))

\* C5: the folders carry the labels of the input in first-seen order, each
\* with the subscriptions of its label in input order, and together they
\* hold every subscription once.
C5_GroupingKeepsOrder ==
    pc = "done" =>
        /\ {folders[i].folder : i \in 1..Len(folders)}
             = {Label(subscriptions[i]) : i \in 1..Len(subscriptions)}
        /\ \A i, j \in 1..Len(folders) :
             i < j => /\ folders[i].folder # folders[j].folder
                      /\ FirstSeen(folders[i].folder) < FirstSeen(folders[j].folder)
        /\ \A i \in 1..Len(folders) :
             folders[i].subs =
               SelectSeq(subscriptions, LAMBDA sub : Label(sub) = folders[i].folder)
        /\ SumLen(folders) = Len(subscriptions)

\* The folders A, Uncategorized, A, B come out as A, Uncategorized, B.
C5_Witness ==
    /\ pc = "done"
    /\ Len(subscriptions) = 4
    /\ <<Label(subscriptions[1]), Label(subscriptions[2]),
         Label(subscriptions[3]), Label(subscriptions[4])>>
         = <<"A", "Uncategorized", "A", "B">>
    /\ subscriptions[1] # subscriptions[3]
    /\ Len(folders) = 3
    /\ <<folders[1].folder, folders[2].folder, folders[3].folder>>
         = <<"A", "Uncategorized", "B">>

----------------------------------------------------------------------------
(* C6.  The body holds exactly one rss leaf for each subscription with a   *)
(* non-empty url and none for a subscription whose url is empty or         *)
(* absent, while the report printed every subscription.                    *)

Leaves == SelectSeq(Body, LAMBDA l : l.el = "rss")

Urls == {subscriptions[i].url : i \in 1..Len(subscriptions)}

SubsWithUrl == Cardinality({i \in 1..Len(subscriptions) : HasUrl(subscriptions[i])})

SubsOfUrl(u) == Cardinality({i \in 1..Len(subscriptions) : subscriptions[i].url = u})

LeavesOfUrl(u) == Cardinality({i \in 1..Len(Leaves) : Leaves[i].xmlUrl = u})

\* C6: one rss leaf per subscription with a non-empty url, none for an empty
\* or absent url, and one Name line printed per subscription.
C6_OneLeafPerUrl ==
    pc = "done" =>
        /\ Len(Leaves) = SubsWithUrl
        /\ \A u \in Urls :
             LeavesOfUrl(u) = (IF u = None \/ u = Str("") THEN 0 ELSE SubsOfUrl(u))
        /\ \A i \in 1..Len(Leaves) : Leaves[i].xmlUrl \in Urls
        /\ Printed("Name") = Len(subscriptions)
        /\ Printed("URL") = SubsWithUrl

C6_Witness ==
    /\ pc = "done"
    /\ \E i, j, k \in 1..Len(subscriptions) :
         /\ subscriptions[i].url = None
         /\ subscriptions[j].url = Str("")
         /\ HasUrl(subscriptions[k])
    /\ Len(Leaves) = 1
    /\ Printed("Name") = 3

----------------------------------------------------------------------------
(* C7.  The Uncategorized folder has no wrapper; every other folder has    *)
(* exactly one, opened before its first leaf and closed after its last     *)
(* and before the next folder; wrappers never nest, and the leaves of      *)
(* Uncategorized lie directly under <body>.                                *)

\* Open wrappers after the first k lines of the body.
Depth(k) ==
    Cardinality({i \in 1..k : Body[i].el = "outline"})
      - Cardinality({i \in 1..k : Body[i].el = "/outline"})

RECURSIVE LeafUrls(_, _)
\* The urls of the leaves among the lines from..to of the body, in order.
LeafUrls(from, to) ==
    IF from > to THEN <<>>
    ELSE (IF Body[from].el = "rss" THEN <<Body[from].xmlUrl>> ELSE <<>>)
           \o LeafUrls(from + 1, to)

RECURSIVE TopLevelUrls(_)
\* The urls of the leaves from line k on that lie in no wrapper, in order.
TopLevelUrls(k) ==
    IF k > Len(Body) THEN <<>>
    ELSE (IF Body[k].el = "rss" /\ Depth(k) = 0 THEN <<Body[k].xmlUrl>> ELSE <<>>)
           \o TopLevelUrls(k + 1)

\* The urls a folder should show: those of its subscriptions that have one.
UrlsOfLabel(label) ==
    LET subs == SelectSeq(subscriptions, LAMBDA sub : Label(sub) = label /\ HasUrl(sub))
    IN  [i \in 1..Len(subs) |-> subs[i].url]

Wrappers == SelectSeq(Body, LAMBDA l : l.el = "outline")

NamedFolders == SelectSeq(folders, LAMBDA b : b.folder # "Uncategorized")

\* The line closing the wrapper opened at line p.
ClosingOf(p) == CHOOSE q \in (p + 1)..Len(Body) :
                    /\ Body[q].el = "/outline"
                    /\ \A r \in (p + 1)..(q - 1) : Body[r].el # "/outline"

\* C7: wrappers never nest, there is one per named folder and none for
\* Uncategorized, each encloses exactly the leaves of its folder, and the
\* leaves of Uncategorized lie outside every wrapper.
C7_OnlyNamedFoldersWrapped ==
    pc = "done" =>
        /\ \A k \in 0..Len(Body) : Depth(k) \in {0, 1}
        /\ Depth(Len(Body)) = 0
        /\ Len(Wrappers) = Len(NamedFolders)
        /\ \A i \in 1..Len(Wrappers) :
             /\ Wrappers[i].text = NamedFolders[i].folder
             /\ Wrappers[i].text # "Uncategorized"
        /\ \A p \in 1..Len(Body) :
             Body[p].el = "outline" =>
               /\ \E q \in (p + 1)..Len(Body) : Body[q].el = "/outline"
               /\ LeafUrls(p + 1, ClosingOf(p) - 1) = UrlsOfLabel(Body[p].text)
               /\ \A r \in (p + 1)..(ClosingOf(p) - 1) : Body[r].el = "rss"
        /\ TopLevelUrls(1) = UrlsOfLabel("Uncategorized")

C7_Witness ==
    /\ pc = "done"
    /\ Len(subscriptions) = 4
    /\ <<Label(subscriptions[1]), Label(subscriptions[2]),
         Label(subscriptions[3]), Label(subscriptions[4])>>
         = <<"A", "Uncategorized", "A", "B">>
    /\ \A i \in 1..4 : HasUrl(subscriptions[i])
    /\ subscriptions[1].url # subscriptions[3].url
    /\ Len(Body) = 8
    /\ Body[5].el = "rss" /\ Depth(5) = 0

----------------------------------------------------------------------------
(* C8.  Every failure that aborts the run has been printed as an           *)
(* "Error: <message>" line by the time the run ends.                       *)

C8_EveryAbortPrintsError ==
    pc = "aborted" => ErrorPrinted

----------------------------------------------------------------------------
(* C9.  The filter is idempotent: applied to a list it has produced, it    *)
(* returns the same list and removes nothing.                              *)

C9_FilterIdempotent ==
    (pc = "filtered" /\ exclude_unfetched) =>
        /\ FilterUnfetched(subscriptions) = subscriptions
        /\ Len(subscriptions) - Len(FilterUnfetched(subscriptions)) = 0

C9_Witness ==
    /\ pc = "filtered"
    /\ exclude_unfetched
    /\ Len(Items) = 2
    /\ filtered_count = 1
    /\ Len(subscriptions) = 1
    /\ Dropped(Items[1])

----------------------------------------------------------------------------
(* C10.  For a valid response the list returned has one Subscription per   *)
(* item, in the order of the items, and each timestamp of a record is      *)
(* None (the field missing or null) or the parsed instant, never a string. *)

\* A timestamp field as the schema's Date scalar allows it.
WellFormed(raw) == ~Present(raw) \/ raw = Str("") \/ IsIso(raw)

ValidResponse ==
    /\ response.tag = "response"
    /\ response.status >= 200 /\ response.status < 300
    /\ ~response.body.errors
    /\ response.body.data
    /\ ~response.body.errorCodes
    /\ \A i \in 1..Len(Items) : \A k \in TimestampKeys : WellFormed(Items[i][k])

ParsedFrom(dt, raw) ==
    /\ dt.tag # "str"
    /\ ~Present(raw) => dt = None
    /\ dt = None \/ /\ dt.tag = "datetime"
                    /\ IsIso(raw)
                    /\ dt.local - dt.utcoffset = InstantOf(raw)

\* C10: a valid response yields a list; the list has one record per item in
\* the order of the items, each timestamp None or the parsed instant.
C10_OneRecordPerItem ==
    /\ ValidResponse => pc = "fetched"
    /\ pc = "fetched" =>
         /\ Len(subscriptions) = Len(Items)
         /\ \A i \in 1..Len(Items) :
              /\ subscriptions[i].name = Items[i].name
              /\ ParsedFrom(subscriptions[i].created_at, Items[i].createdAt)
              /\ ParsedFrom(subscriptions[i].last_fetched_at, Items[i].lastFetchedAt)
              /\ ParsedFrom(subscriptions[i].refreshed_at, Items[i].refreshedAt)
              /\ ParsedFrom(subscriptions[i].failed_at, Items[i].failedAt)

C10_Witness ==
    /\ pc = "fetched"
    /\ Len(Items) = 2
    /\ Items[1] # Items[2]
    /\ Items[1].createdAt = None /\ Items[1].lastFetchedAt = Absent
    /\ subscriptions[1].created_at = None /\ subscriptions[1].last_fetched_at = None
    /\ subscriptions[2].created_at.tag = "datetime"
    /\ subscriptions[2].last_fetched_at.tag = "datetime"
    /\ subscriptions[2].last_fetched_at.utcoffset = 3600
====
